---- MODULE Spec2Model ----
(***************************************************************************)
(* Model of the weekly post scheduler of Reddit-postCreator                *)
(* (src/src/scheduler.py): WeekScheduler.__init__, _get_posting_times,     *)
(* schedule_posts, validate_schedule and schedule_week_posts; of            *)
(* generate_with_retry (src/src/agents.py); and of the campaign loop and   *)
(* export of main and generate_single_post_chain (src/main.py).            *)
(*                                                                         *)
(* A datetime is a record [date, hour, minute, second, microsecond]; date  *)
(* is a day number, day 0 a Monday.  An ISO string is the sequence of its  *)
(* decimal digits.  Post     *)
(* objects are the elements of the sequence posts; every list of posts the *)
(* code builds is a sequence of indices into it (object references).       *)
(***************************************************************************)
EXTENDS Integers, Sequences, FiniteSets, TLC

VARIABLES start_date, posts, draws, posts_to_schedule, pos, used_keywords,
          daily_subreddits, scheduled_posts, schedule, pc, day_of, slot_of, how,
          validation, report,
          today,
          max_retries, responses, attempt, api_calls, waited, outcome,
          config, week_idx, week_keywords, tasks, all_posts_data,
          all_comments_data, post_rows, comment_rows, mpc, sched_log,
          calls

\* one WeekScheduler and its schedule_posts call
schedVars == <<start_date, posts, draws, posts_to_schedule, pos, used_keywords,
               daily_subreddits, scheduled_posts, schedule, pc, day_of, slot_of, how,
               validation, report>>

\* datetime.now() as read by WeekScheduler.__init__ and by main
clockVars == <<today>>

\* one generate_with_retry call
retryVars == <<max_retries, responses, attempt, api_calls, waited, outcome>>

\* one run of the campaign in main
campaignVars == <<config, week_idx, week_keywords, tasks, all_posts_data,
                  all_comments_data, post_rows, comment_rows, mpc, sched_log>>

\* schedule_week_posts calls running in several threads
threadVars == <<calls>>

vars == <<schedVars, clockVars, retryVars, campaignVars, threadVars>>

\* what a step of one scheduler leaves alone
outside == <<clockVars, retryVars, campaignVars, threadVars>>

-----------------------------------------------------------------------------
(* Bounds of the model *)

\* longest batch scheduled with every shuffle, slot and minute draw
MaxPosts == 2
\* posts beyond seven that target one forum in the week-exhaustion batches
ExtraPosts == 1

(* Program constants *)
NumDays == 7
LastMinute == 59

Days == 0..(NumDays - 1)
PeakHours == <<7, 12, 19>>
KeywordIds == {"k1", "k2"}
Subreddits == {"r/A", "r/B"}
\* sample of random.randint(0, 59): both ends of the range
MinuteDraws == {0, LastMinute}

None == <<>>

-----------------------------------------------------------------------------
(* datetime arithmetic and the ISO conversions *)

DateTime(d, h, m, s) ==
    [date |-> d, hour |-> h, minute |-> m, second |-> s, microsecond |-> 0]

\* the same instant plus a fraction of a second
WithMicrosecond(dt, us) == [dt EXCEPT !.microsecond = us]

\* dt + timedelta(days=n)
PlusDays(dt, n) == [dt EXCEPT !.date = @ + n]

\* dt.replace(hour=h, minute=m): second and microsecond are kept
ReplaceHourMinute(dt, h, m) == [dt EXCEPT !.hour = h, !.minute = m]

\* position of a datetime on the time line, in seconds
ToSeconds(dt) == ((dt.date * 24 + dt.hour) * 60 + dt.minute) * 60 + dt.second

\* datetime comparison a < b and a <= b
Earlier(a, b) ==
    \/ ToSeconds(a) < ToSeconds(b)
    \/ ToSeconds(a) = ToSeconds(b) /\ a.microsecond < b.microsecond

NotLater(a, b) == ~Earlier(b, a)

\* the six digits of a microsecond value
MicroDigits(us) ==
    << (us \div 100000) % 10, (us \div 10000) % 10, (us \div 1000) % 10,
       (us \div 100) % 10, (us \div 10) % 10, us % 10 >>

\* strftime("%Y-%m-%d %H:%M:%S"): zero-padded decimal fields down to the second
SecondsFormat(dt) ==
    << dt.date \div 10, dt.date % 10,
       dt.hour \div 10, dt.hour % 10,
       dt.minute \div 10, dt.minute % 10,
       dt.second \div 10, dt.second % 10 >>

\* datetime.isoformat(): the fraction is written only when it is not zero
isoformat(dt) ==
    SecondsFormat(dt) \o (IF dt.microsecond = 0 THEN <<>> ELSE MicroDigits(dt.microsecond))

\* datetime.fromisoformat(), pd.to_datetime()
fromisoformat(s) ==
    WithMicrosecond(
        DateTime(s[1] * 10 + s[2], s[3] * 10 + s[4], s[5] * 10 + s[6], s[7] * 10 + s[8]),
        IF Len(s) > 8
        THEN s[9] * 100000 + s[10] * 10000 + s[11] * 1000 + s[12] * 100 + s[13] * 10 + s[14]
        ELSE 0)

-----------------------------------------------------------------------------
(* Variants of _get_posting_times with a plausible slip *)

\* base_date one day late: start_date + timedelta(days=day + 1)
PostingTimesNextDay(day, mins) ==
    LET base_date == PlusDays(start_date, day + 1)
    IN  [i \in 1..3 |-> ReplaceHourMinute(base_date, PeakHours[i], mins[i])]

\* base_date without the day offset: every day's slots fall on start_date
PostingTimesSameDay(day, mins) ==
    [i \in 1..3 |-> ReplaceHourMinute(start_date, PeakHours[i], mins[i])]

(* WeekScheduler._get_posting_times: mins[i] is the i-th randint draw *)

_get_posting_times(day, mins) ==
    LET base_date == PlusDays(start_date, day)
    IN  [i \in 1..3 |-> ReplaceHourMinute(base_date, PeakHours[i], mins[i])]

-----------------------------------------------------------------------------
(* The random source.  draws is the set of outcomes the process-wide       *)
(* generator can yield in this run: which shuffles of the batch, which     *)
(* index random.choice picks, which minutes randint returns.  The order of *)
(* the days (random.shuffle(attempts)) is never restricted.                *)

FullDraws == [shuffles |-> "all", slots |-> {1, 2, 3}, minutes |-> MinuteDraws]
NarrowDraws == [shuffles |-> "identity", slots |-> {2}, minutes |-> {0}]
\* every shuffle and slot, minute 0
HourDraws == [shuffles |-> "all", slots |-> {1, 2, 3}, minutes |-> {0}]

Identity(n) == [i \in 1..n |-> i]

\* outcomes of random.shuffle(posts_to_schedule)
PostOrders(n) ==
    IF draws.shuffles = "all" THEN Permutations(1..n) ELSE {Identity(n)}

\* outcomes of random.shuffle(attempts), attempts = list(range(7))
DayOrders == Permutations(Days)

NoDay == -1

\* variant: the subreddit check is missing, the first day of the order is taken
FirstDayUnchecked(attempts, taken) == attempts[0]

\* variant: only the first day of the order is tried
FirstDayOnly(attempts, taken) == IF attempts[0] \in taken THEN NoDay ELSE attempts[0]

\* the for loop over attempts: the first day of the order whose used-forum
\* set lacks the subreddit; taken is the set of days whose set contains it.
\* NoDay when the loop ends without a break (scheduled stays False).
FirstFreeDay(attempts, taken) ==
    IF \A i \in Days : attempts[i] \in taken
    THEN NoDay
    ELSE attempts[CHOOSE i \in Days :
                     /\ attempts[i] \notin taken
                     /\ \A j \in 0..(i - 1) : attempts[j] \in taken]

\* the outcome of the loop for every shuffle of the days and every set taken
LoopTable == {<<taken, FirstFreeDay(a, taken)>> : taken \in SUBSET Days, a \in DayOrders}

\* the outcomes of the loop over the shuffles of the days, given taken
LoopOutcomes(taken) == {e[2] : e \in {x \in LoopTable : x[1] = taken}}

\* days whose used-forum set contains the subreddit
DaysTaken(subreddit) == {d \in Days : subreddit \in daily_subreddits[d]}

\* variant: ties broken by the highest day index
MinConflictsDayLast ==
    CHOOSE d \in Days :
        \A e \in Days :
            \/ Cardinality(daily_subreddits[d]) < Cardinality(daily_subreddits[e])
            \/ /\ Cardinality(daily_subreddits[d]) = Cardinality(daily_subreddits[e])
               /\ d >= e

\* min(range(7), key=lambda d: len(daily_subreddits[d])): first minimum
MinConflictsDay ==
    CHOOSE d \in Days :
        \A e \in Days :
            \/ Cardinality(daily_subreddits[d]) < Cardinality(daily_subreddits[e])
            \/ /\ Cardinality(daily_subreddits[d]) = Cardinality(daily_subreddits[e])
               /\ d <= e

-----------------------------------------------------------------------------
(* scheduled_posts.sort(key=lambda x: dt.fromisoformat(x.timestamp)):      *)
(* a stable sort of the references by the parsed timestamp                 *)

SortKey(p) == fromisoformat(posts[p].timestamp)

\* insert reference p after every element whose key is not greater
InsertSorted(s, p) ==
    LET before == {i \in 1..Len(s) : NotLater(SortKey(s[i]), SortKey(p))}
        k == IF before = {} THEN 0 ELSE CHOOSE i \in before : \A j \in before : j <= i
    IN  SubSeq(s, 1, k) \o <<p>> \o SubSeq(s, k + 1, Len(s))

\* variant: the list is returned in processing order
Unsorted(s) == s

RECURSIVE SortByTimestamp(_)
SortByTimestamp(s) ==
    IF s = <<>> THEN <<>>
    ELSE InsertSorted(SortByTimestamp(SubSeq(s, 1, Len(s) - 1)), s[Len(s)])

-----------------------------------------------------------------------------
(* WeekScheduler.validate_schedule over self.schedule *)

Count(s, x) == Cardinality({i \in 1..Len(s) : s[i] = x})

\* the violation of one day for repeated subreddits, if any
DuplicateViolation(day_idx, day_posts) ==
    LET day_subreddits == [i \in 1..Len(day_posts) |-> day_posts[i].subreddit]
        distinct == {day_subreddits[i] : i \in 1..Len(day_subreddits)}
        duplicates == {sr \in distinct : Count(day_subreddits, sr) > 1}
    IN  IF Len(day_subreddits) # Cardinality(distinct)
        THEN << [kind |-> "subreddit", day |-> day_idx, what |-> duplicates] >>
        ELSE <<>>

\* the keyword violations of one day's posts given the keywords seen so far
RECURSIVE KeywordViolations(_, _)
KeywordViolations(day_posts, all_keywords) ==
    IF day_posts = <<>> THEN <<>>
    ELSE LET keyword == Head(day_posts).keyword_id
         IN  (IF keyword \in all_keywords
              THEN << [kind |-> "keyword", day |-> NoDay, what |-> {keyword}] >>
              ELSE <<>>)
             \o KeywordViolations(Tail(day_posts), all_keywords \cup {keyword})

KeywordsOf(day_posts) == {day_posts[i].keyword_id : i \in 1..Len(day_posts)}

\* variant: the keywords seen are forgotten from one day to the next
RECURSIVE ViolationsPerDay(_, _, _)
ViolationsPerDay(sched, day_idx, all_keywords) ==
    IF day_idx \notin Days THEN <<>>
    ELSE DuplicateViolation(day_idx, sched[day_idx])
         \o KeywordViolations(sched[day_idx], {})
         \o ViolationsPerDay(sched, day_idx + 1, {})

RECURSIVE ViolationsFrom(_, _, _)
ViolationsFrom(sched, day_idx, all_keywords) ==
    IF day_idx \notin Days THEN <<>>
    ELSE DuplicateViolation(day_idx, sched[day_idx])
         \o KeywordViolations(sched[day_idx], all_keywords)
         \o ViolationsFrom(sched, day_idx + 1, all_keywords \cup KeywordsOf(sched[day_idx]))

validate_schedule(sched) ==
    LET violations == ViolationsFrom(sched, 0, {})
    IN  [is_valid |-> Len(violations) = 0, violations |-> violations]

\* value of the validation result before validate_schedule has run
NotValidated == [is_valid |-> FALSE, violations |-> <<>>]

-----------------------------------------------------------------------------
(* Input batches *)

Post(k, sr) ==
    [title |-> "title", body |-> "body", subreddit |-> sr, author_id |-> "u1",
     keyword_id |-> k, timestamp |-> None]

PostInputs == {Post(k, sr) : k \in KeywordIds, sr \in Subreddits}

\* every batch of at most MaxPosts posts
SmallBatches == UNION {[1..n -> PostInputs] : n \in 0..MaxPosts}

WeekKeywordIds == <<"k1", "k2", "k3", "k4", "k5", "k6", "k7", "k8", "k9", "k10">>

\* more posts with distinct topics on one forum than the week has days
OneForumBatch == [i \in 1..(NumDays + ExtraPosts) |-> Post(WeekKeywordIds[i], "r/A")]

\* the same behind one post to another forum
WeekBatches == {OneForumBatch, <<Post("k0", "r/B")>> \o OneForumBatch}

\* anchors: the default time of day (09:00:00) and an evening datetime.now()
StartDates == <<DateTime(0, 9, 0, 0), WithMicrosecond(DateTime(0, 20, 15, 30), 500000)>>

-----------------------------------------------------------------------------
(* Values of the state outside a scheduler while only the scheduler runs *)

ClockIdle == today = DateTime(0, 0, 0, 0)

RetryIdle ==
    /\ max_retries = 0
    /\ responses = <<>>
    /\ attempt = 0
    /\ api_calls = 0
    /\ waited = 0
    /\ outcome = [kind |-> "idle", value |-> None]

CampaignIdle ==
    /\ config = [posts_per_week |-> 0, duration_weeks |-> 0, num_comments |-> 0,
                 keywords |-> <<>>]
    /\ week_idx = 0
    /\ week_keywords = {}
    /\ tasks = <<>>
    /\ all_posts_data = <<>>
    /\ all_comments_data = <<>>
    /\ post_rows = <<>>
    /\ comment_rows = <<>>
    /\ mpc = "idle"
    /\ sched_log = <<>>

ThreadsIdle == calls = <<>>

\* a scheduler not yet given a batch: fresh working state of schedule_posts
SchedulerFresh ==
    /\ posts_to_schedule = <<>>
    /\ pos = 0
    /\ used_keywords = {}
    /\ daily_subreddits = [day \in Days |-> {}]
    /\ scheduled_posts = <<>>
    /\ day_of = [i \in 1..Len(posts) |-> NoDay]
    /\ slot_of = [i \in 1..Len(posts) |-> 0]
    /\ how = [i \in 1..Len(posts) |-> "pending"]
    /\ validation = NotValidated
    /\ report = "none"

-----------------------------------------------------------------------------
(* State after WeekScheduler(start_date) is constructed, before            *)
(* schedule_posts(posts) runs                                              *)
(* Small batches run from the 09:00 anchor with both ends of the minute    *)
(* range and from the evening anchor with minute 0; the week batches run   *)
(* with the narrow draws.                                                  *)

Init ==
    /\ \/ /\ posts \in SmallBatches
          /\ \E anchor \in 1..Len(StartDates) :
                /\ start_date = StartDates[anchor]
                /\ draws = IF anchor = 1 THEN FullDraws ELSE HourDraws
       \/ /\ posts \in WeekBatches
          /\ start_date = DateTime(0, 9, 0, 0)
          /\ draws = NarrowDraws
    /\ schedule = [day \in Days |-> <<>>]
    /\ posts_to_schedule = <<>>
    /\ pos = 0
    /\ used_keywords = {}
    /\ daily_subreddits = [day \in Days |-> {}]
    /\ scheduled_posts = <<>>
    /\ pc = "new"
    /\ day_of = [i \in 1..Len(posts) |-> NoDay]
    /\ slot_of = [i \in 1..Len(posts) |-> 0]
    /\ how = [i \in 1..Len(posts) |-> "pending"]
    /\ validation = NotValidated
    /\ report = "none"
    /\ ClockIdle /\ RetryIdle /\ CampaignIdle /\ ThreadsIdle

\* variant: the loop starts at the second post of the shuffled copy
ShuffleSkipFirst ==
    /\ pc = "new"
    /\ \E order \in PostOrders(Len(posts)) :
           posts_to_schedule' = [i \in 1..Len(posts) |-> order[i]]
    /\ scheduled_posts' = <<>>
    /\ used_keywords' = {}
    /\ daily_subreddits' = [day \in Days |-> {}]
    /\ pos' = 2
    /\ pc' = "loop"
    /\ UNCHANGED <<start_date, posts, draws, schedule, day_of, slot_of, how, validation,
                   report>>
    /\ UNCHANGED outside

\* schedule_posts, lines 63-73: fresh working sets, copy and shuffle
Shuffle ==
    /\ pc = "new"
    /\ \E order \in PostOrders(Len(posts)) :
           posts_to_schedule' = [i \in 1..Len(posts) |-> order[i]]
    /\ scheduled_posts' = <<>>
    /\ used_keywords' = {}
    /\ daily_subreddits' = [day \in Days |-> {}]
    /\ pos' = 1
    /\ pc' = "loop"
    /\ UNCHANGED <<start_date, posts, draws, schedule, day_of, slot_of, how, validation,
                   report>>
    /\ UNCHANGED outside

\* the post the for loop is at
Current == posts_to_schedule[pos]

InLoop == pc = "loop" /\ pos <= Len(posts_to_schedule)

\* variant: daily_subreddits[day].add is missing
AssignNoForum(p, day, mins, choice, path) ==
    /\ posts' = [posts EXCEPT
                   ![p].timestamp = isoformat(_get_posting_times(day, mins)[choice])]
    /\ daily_subreddits' = daily_subreddits
    /\ used_keywords' = used_keywords \cup {posts[p].keyword_id}
    /\ scheduled_posts' = Append(scheduled_posts, p)
    /\ day_of' = [day_of EXCEPT ![p] = day]
    /\ slot_of' = [slot_of EXCEPT ![p] = choice]
    /\ how' = [how EXCEPT ![p] = path]
    /\ pos' = pos + 1
    /\ UNCHANGED <<start_date, draws, posts_to_schedule, schedule, pc, validation, report>>
    /\ UNCHANGED outside

\* variant: used_keywords.add is missing
AssignNoKeyword(p, day, mins, choice, path) ==
    /\ posts' = [posts EXCEPT
                   ![p].timestamp = isoformat(_get_posting_times(day, mins)[choice])]
    /\ daily_subreddits' = [daily_subreddits EXCEPT ![day] = @ \cup {posts[p].subreddit}]
    /\ used_keywords' = used_keywords
    /\ scheduled_posts' = Append(scheduled_posts, p)
    /\ day_of' = [day_of EXCEPT ![p] = day]
    /\ slot_of' = [slot_of EXCEPT ![p] = choice]
    /\ how' = [how EXCEPT ![p] = path]
    /\ pos' = pos + 1
    /\ UNCHANGED <<start_date, draws, posts_to_schedule, schedule, pc, validation, report>>
    /\ UNCHANGED outside

\* lines 88-101 and 110-120: draw the day's posting times, choose one, stamp
\* the post and update the tracking
Assign(p, day, mins, choice, path) ==
    /\ posts' = [posts EXCEPT
                   ![p].timestamp = isoformat(_get_posting_times(day, mins)[choice])]
    /\ daily_subreddits' = [daily_subreddits EXCEPT ![day] = @ \cup {posts[p].subreddit}]
    /\ used_keywords' = used_keywords \cup {posts[p].keyword_id}
    /\ scheduled_posts' = Append(scheduled_posts, p)
    /\ day_of' = [day_of EXCEPT ![p] = day]
    /\ slot_of' = [slot_of EXCEPT ![p] = choice]
    /\ how' = [how EXCEPT ![p] = path]
    /\ pos' = pos + 1
    /\ UNCHANGED <<start_date, draws, posts_to_schedule, schedule, pc, validation, report>>
    /\ UNCHANGED outside

\* variant: a skipped post loses its timestamp
SkipKeywordClears ==
    /\ InLoop
    /\ posts[Current].keyword_id \in used_keywords
    /\ posts' = [posts EXCEPT ![Current].timestamp = None]
    /\ how' = [how EXCEPT ![Current] = "dropped"]
    /\ pos' = pos + 1
    /\ UNCHANGED <<start_date, draws, posts_to_schedule, used_keywords,
                   daily_subreddits, scheduled_posts, schedule, pc, day_of, slot_of,
                   validation, report>>
    /\ UNCHANGED outside

\* lines 76-78: topic rule, the post is skipped
SkipKeyword ==
    /\ InLoop
    /\ posts[Current].keyword_id \in used_keywords
    /\ how' = [how EXCEPT ![Current] = "dropped"]
    /\ pos' = pos + 1
    /\ UNCHANGED <<start_date, posts, draws, posts_to_schedule, used_keywords,
                   daily_subreddits, scheduled_posts, schedule, pc, day_of, slot_of,
                   validation, report>>
    /\ UNCHANGED outside

\* lines 80-103: day rule, the first free day of a shuffled order
PlaceOnFreeDay ==
    /\ InLoop
    /\ posts[Current].keyword_id \notin used_keywords
    /\ \E day \in LoopOutcomes(DaysTaken(posts[Current].subreddit)) :
          /\ day # NoDay
          /\ \E mins \in [1..3 -> draws.minutes], choice \in draws.slots :
                 Assign(Current, day, mins, choice, "day_rule")

\* variant: a post without a free day is dropped
FallbackDrops ==
    /\ InLoop
    /\ posts[Current].keyword_id \notin used_keywords
    /\ NoDay \in LoopOutcomes(DaysTaken(posts[Current].subreddit))
    /\ how' = [how EXCEPT ![Current] = "dropped"]
    /\ pos' = pos + 1
    /\ UNCHANGED <<start_date, posts, draws, posts_to_schedule, used_keywords,
                   daily_subreddits, scheduled_posts, schedule, pc, day_of, slot_of,
                   validation, report>>
    /\ UNCHANGED outside

\* lines 105-120: no free day, least-used day
PlaceFallback ==
    /\ InLoop
    /\ posts[Current].keyword_id \notin used_keywords
    /\ NoDay \in LoopOutcomes(DaysTaken(posts[Current].subreddit))
    /\ posts[Current].keyword_id \notin used_keywords
    /\ \E mins \in [1..3 -> draws.minutes], choice \in draws.slots :
           Assign(Current, MinConflictsDay, mins, choice, "fallback")

\* lines 122-126: sort by parsed timestamp and return
SortAndReturn ==
    /\ pc = "loop"
    /\ pos > Len(posts_to_schedule)
    /\ scheduled_posts' = SortByTimestamp(scheduled_posts)
    /\ pc' = "returned"
    /\ UNCHANGED <<start_date, posts, draws, posts_to_schedule, pos, used_keywords,
                   daily_subreddits, schedule, day_of, slot_of, how, validation,
                   report>>
    /\ UNCHANGED outside

\* schedule_week_posts, lines 204-217: validate the scheduler and report
ValidateAndReport ==
    /\ pc = "returned"
    /\ validation' = validate_schedule(schedule)
    /\ report' = IF validation'.is_valid THEN "no_collisions" ELSE "violations"
    /\ pc' = "validated"
    /\ UNCHANGED <<start_date, posts, draws, posts_to_schedule, pos, used_keywords,
                   daily_subreddits, scheduled_posts, schedule, day_of, slot_of, how>>
    /\ UNCHANGED outside

Next ==
    \/ Shuffle
    \/ SkipKeyword
    \/ PlaceOnFreeDay
    \/ PlaceFallback
    \/ SortAndReturn
    \/ ValidateAndReport

Spec == Init /\ [][Next]_vars

-----------------------------------------------------------------------------
(* schedule_posts on posts that may already carry a timestamp *)

Stamp(post, ts) == [post EXCEPT !.timestamp = ts]

\* a timestamp set before the call, outside the peak slots
PriorTimestamp == isoformat(DateTime(0, 8, 30, 0))

PriorInputs == {Stamp(q, ts) : q \in PostInputs, ts \in {None, PriorTimestamp}}

PriorBatches == UNION {[1..n -> PriorInputs] : n \in 0..MaxPosts}

PriorWeekBatch == [i \in 1..Len(OneForumBatch) |-> Stamp(OneForumBatch[i], PriorTimestamp)]

InitRestamp ==
    /\ \/ /\ posts \in PriorBatches
          /\ draws = HourDraws
       \/ /\ posts = PriorWeekBatch
          /\ draws = NarrowDraws
    /\ start_date = DateTime(0, 9, 0, 0)
    /\ schedule = [day \in Days |-> <<>>]
    /\ pc = "new"
    /\ SchedulerFresh
    /\ ClockIdle /\ RetryIdle /\ CampaignIdle /\ ThreadsIdle

SpecRestamp == InitRestamp /\ [][Next]_vars

-----------------------------------------------------------------------------
(* WeekScheduler.__init__ without a start_date: the default anchor *)

\* datetime.weekday(): 0 is Monday; day number 0 is a Monday
weekday(dt) == dt.date % NumDays

\* variant: the guard that turns 0 days into 7 is missing
DefaultStartDateToday(now) ==
    LET days_until_monday == (NumDays - weekday(now)) % NumDays
    IN  [PlusDays(now, days_until_monday) EXCEPT
            !.hour = 9, !.minute = 0, !.second = 0, !.microsecond = 0]

\* lines 24-29
DefaultStartDate(now) ==
    LET modulo == (NumDays - weekday(now)) % NumDays
        days_until_monday == IF modulo = 0 THEN NumDays ELSE modulo
    IN  [PlusDays(now, days_until_monday) EXCEPT
            !.hour = 9, !.minute = 0, !.second = 0, !.microsecond = 0]

\* values of datetime.now(): every weekday and hour, both ends of the minute,
\* second and microsecond ranges
Nows ==
    {WithMicrosecond(DateTime(d, h, m, sec), us) :
        d \in Days, h \in 0..23, m \in MinuteDraws, sec \in MinuteDraws, us \in {0, 999999}}

\* WeekScheduler() is about to be constructed with start_date = None
InitAnchor ==
    /\ today \in Nows
    /\ start_date = None
    /\ posts = <<>>
    /\ draws = FullDraws
    /\ schedule = [day \in Days |-> <<>>]
    /\ pc = "constructing"
    /\ SchedulerFresh
    /\ RetryIdle /\ CampaignIdle /\ ThreadsIdle

\* WeekScheduler.__init__, lines 22-32, start_date is None
Construct ==
    /\ pc = "constructing"
    /\ start_date = None
    /\ start_date' = DefaultStartDate(today)
    /\ schedule' = [day \in Days |-> <<>>]
    /\ pc' = "new"
    /\ UNCHANGED <<posts, draws, posts_to_schedule, pos, used_keywords, daily_subreddits,
                   scheduled_posts, day_of, slot_of, how, validation, report>>
    /\ UNCHANGED outside

SpecAnchor == InitAnchor /\ [][Construct]_vars

-----------------------------------------------------------------------------
(* validate_schedule called on a scheduler whose schedule is populated *)

\* longest list of entries put into self.schedule
MaxEntries == 3

\* an entry of self.schedule[day]: the keys validate_schedule reads
Entry(k, sr) == [keyword_id |-> k, subreddit |-> sr]

\* (day, entry) pairs in the order they were put into the schedule
EntryLists ==
    UNION {[1..n -> Days \X {Entry(k, sr) : k \in KeywordIds, sr \in Subreddits}] :
              n \in 0..MaxEntries}

RECURSIVE EntriesOfDay(_, _)
EntriesOfDay(es, day) ==
    IF es = <<>> THEN <<>>
    ELSE (IF Head(es)[1] = day THEN <<Head(es)[2]>> ELSE <<>>) \o EntriesOfDay(Tail(es), day)

Populated(es) == [day \in Days |-> EntriesOfDay(es, day)]

InitValidate ==
    /\ \E es \in EntryLists : schedule = Populated(es)
    /\ start_date = DateTime(0, 9, 0, 0)
    /\ posts = <<>>
    /\ draws = FullDraws
    /\ pc = "populated"
    /\ SchedulerFresh
    /\ ClockIdle /\ RetryIdle /\ CampaignIdle /\ ThreadsIdle

\* WeekScheduler.validate_schedule, lines 163-188
ValidateSchedule ==
    /\ pc = "populated"
    /\ validation' = validate_schedule(schedule)
    /\ pc' = "checked"
    /\ UNCHANGED <<start_date, posts, draws, posts_to_schedule, pos, used_keywords,
                   daily_subreddits, scheduled_posts, schedule, day_of, slot_of, how,
                   report>>
    /\ UNCHANGED outside

SpecValidate == InitValidate /\ [][ValidateSchedule]_vars

-----------------------------------------------------------------------------
(* generate_with_retry(model, prompt, max_retries)                         *)
(* responses[i] is what the i-th call of model.generate_content does:      *)
(* return a response, raise ResourceExhausted, or raise another exception. *)
(* outcome is how the function ended: kind "returned" with the value, or   *)
(* kind "raised" with the exception.                                       *)

\* largest max_retries passed
MaxRetries == 4

\* time.sleep(wait_time), seconds
WaitTime == 60

CallResults == {"response", "ResourceExhausted", "error"}

InitRetry ==
    /\ max_retries \in 0..MaxRetries
    /\ responses \in [1..max_retries -> CallResults]
    /\ attempt = 0
    /\ api_calls = 0
    /\ waited = 0
    /\ outcome = [kind |-> "running", value |-> None]
    /\ start_date = DateTime(0, 9, 0, 0)
    /\ posts = <<>>
    /\ draws = FullDraws
    /\ schedule = [day \in Days |-> <<>>]
    /\ pc = "new"
    /\ SchedulerFresh
    /\ ClockIdle /\ CampaignIdle /\ ThreadsIdle

\* the for loop is at an iteration: attempt in range(max_retries)
Calling == outcome.kind = "running" /\ attempt < max_retries

\* line 29: the call returns and so does the function
CallReturns ==
    /\ Calling
    /\ responses[attempt + 1] = "response"
    /\ api_calls' = api_calls + 1
    /\ outcome' = [kind |-> "returned", value |-> <<"response", attempt + 1>>]
    /\ UNCHANGED <<max_retries, responses, attempt, waited>>
    /\ UNCHANGED <<schedVars, clockVars, campaignVars, threadVars>>

\* lines 30-34: ResourceExhausted before the last attempt, sleep and go on
CallExhaustedRetry ==
    /\ Calling
    /\ responses[attempt + 1] = "ResourceExhausted"
    /\ attempt < max_retries - 1
    /\ api_calls' = api_calls + 1
    /\ waited' = waited + WaitTime
    /\ attempt' = attempt + 1
    /\ UNCHANGED <<max_retries, responses, outcome>>
    /\ UNCHANGED <<schedVars, clockVars, campaignVars, threadVars>>

\* lines 35-37: ResourceExhausted at the last attempt is re-raised
CallExhaustedRaise ==
    /\ Calling
    /\ responses[attempt + 1] = "ResourceExhausted"
    /\ ~(attempt < max_retries - 1)
    /\ api_calls' = api_calls + 1
    /\ outcome' = [kind |-> "raised", value |-> <<"ResourceExhausted">>]
    /\ UNCHANGED <<max_retries, responses, attempt, waited>>
    /\ UNCHANGED <<schedVars, clockVars, campaignVars, threadVars>>

\* another exception is not caught
CallRaisesOther ==
    /\ Calling
    /\ responses[attempt + 1] = "error"
    /\ api_calls' = api_calls + 1
    /\ outcome' = [kind |-> "raised", value |-> <<"error">>]
    /\ UNCHANGED <<max_retries, responses, attempt, waited>>
    /\ UNCHANGED <<schedVars, clockVars, campaignVars, threadVars>>

\* range(max_retries) is used up: the function ends without a return statement
LoopEnds ==
    /\ outcome.kind = "running"
    /\ ~(attempt < max_retries)
    /\ outcome' = [kind |-> "returned", value |-> None]
    /\ UNCHANGED <<max_retries, responses, attempt, api_calls, waited>>
    /\ UNCHANGED <<schedVars, clockVars, campaignVars, threadVars>>

NextRetry ==
    \/ CallReturns
    \/ CallExhaustedRetry
    \/ CallExhaustedRaise
    \/ CallRaisesOther
    \/ LoopEnds

SpecRetry == InitRetry /\ [][NextRetry]_vars

-----------------------------------------------------------------------------
(* main: a campaign.  For every week the main thread submits posts_per_week *)
(* tasks generate_single_post_chain to a thread pool and collects their     *)
(* results as they complete; after the last week it builds the export rows. *)
(* tasks[i] is the i-th submitted task with its post and comments;          *)
(* sched_log records every call of schedule_posts.                          *)

\* largest settings of the sample of campaigns
MaxPostsPerWeek == 2
MaxWeeks == 2
MaxComments == 1
\* most posts of a campaign of the sample
MaxCampaignPosts == 2

\* random.randint(15, 120), minutes
MinOffset == 15
MaxOffset == 120

\* keywords_source of the loaded data
KeywordSources == {<<"k1">>, <<"k1", "k2">>}

\* data['subreddits']
CampaignSubreddits == {"r/A"}

Configs ==
    {c \in [posts_per_week : 1..MaxPostsPerWeek, duration_weeks : 1..MaxWeeks,
            num_comments : 0..MaxComments, keywords : KeywordSources] :
        c.posts_per_week * c.duration_weeks <= MaxCampaignPosts}

\* values of datetime.now() during a run: on and off a full second
CampaignNows ==
    {DateTime(0, 20, 15, 30), WithMicrosecond(DateTime(0, 20, 15, 30), 500000)}

\* the random outcomes inside a task: the day the shuffled order starts with
\* (any), and a sample of the slot random.choice picks, of the minutes and of
\* the offsets
CampaignDraws ==
    [days |-> Days, slots |-> {1}, minutes |-> {0},
     offsets |-> {MinOffset, MaxOffset}]

_clean_timestamp(value) ==
    IF value = None THEN <<>> ELSE SecondsFormat(fromisoformat(value))

FromSeconds(n) ==
    DateTime(n \div 86400, (n \div 3600) % 24, (n \div 60) % 60, n % 60)

\* dt + timedelta(minutes=m)
PlusMinutes(dt, m) ==
    WithMicrosecond(FromSeconds(ToSeconds(dt) + 60 * m), dt.microsecond)

\* dt + timedelta(weeks=w)
PlusWeeks(dt, w) == PlusDays(dt, 7 * w)

\* _get_posting_times of a scheduler anchored at start
PostingTimesFrom(start, day, mins) ==
    LET base_date == PlusDays(start, day)
    IN  [i \in 1..3 |-> ReplaceHourMinute(base_date, PeakHours[i], mins[i])]

\* schedule_posts([post], start_date=start): the timestamps a batch of one
\* post can get; its topic is new and the first day tried is free
SinglePostTimestamps(start) ==
    {isoformat(PostingTimesFrom(start, day, mins)[choice]) :
        day \in CampaignDraws.days, mins \in [1..3 -> CampaignDraws.minutes],
        choice \in CampaignDraws.slots}

TaskIdx == 1..Len(tasks)

WeekTasks(w) == {i \in TaskIdx : tasks[i].week = w}

InitCampaign ==
    /\ config \in Configs
    /\ today \in CampaignNows
    /\ week_idx = 0
    /\ week_keywords = {}
    /\ tasks = <<>>
    /\ all_posts_data = <<>>
    /\ all_comments_data = <<>>
    /\ post_rows = <<>>
    /\ comment_rows = <<>>
    /\ mpc = "week"
    /\ sched_log = <<>>
    /\ start_date = DateTime(0, 9, 0, 0)
    /\ posts = <<>>
    /\ draws = FullDraws
    /\ schedule = [day \in Days |-> <<>>]
    /\ pc = "new"
    /\ SchedulerFresh
    /\ RetryIdle /\ ThreadsIdle

KeywordsOfSource == {config.keywords[i] : i \in 1..Len(config.keywords)}

\* main, lines 176-210: one iteration of for i in range(posts_per_week)
Submit ==
    /\ mpc = "week"
    /\ Cardinality(WeekTasks(week_idx)) < config.posts_per_week
    /\ LET unused == KeywordsOfSource \ week_keywords
           reset == unused = {}
           available_keywords == IF reset THEN KeywordsOfSource ELSE unused
       IN  \E keyword_id \in available_keywords, subreddit \in CampaignSubreddits :
              /\ week_keywords' = (IF reset THEN {} ELSE week_keywords) \cup {keyword_id}
              /\ tasks' = Append(tasks,
                     [week |-> week_idx, stage |-> "submitted",
                      post |-> Post(keyword_id, subreddit), comments |-> <<>>,
                      collected |-> FALSE])
    /\ UNCHANGED <<config, week_idx, all_posts_data, all_comments_data, post_rows,
                   comment_rows, mpc, sched_log>>
    /\ UNCHANGED <<schedVars, clockVars, retryVars, threadVars>>

\* generate_single_post_chain, lines 87-92, in a pool thread: generate the
\* post and schedule it as a batch of one
TaskSchedule(i) ==
    /\ tasks[i].stage = "submitted"
    /\ LET start == PlusWeeks(today, tasks[i].week)
       IN  \E ts \in SinglePostTimestamps(start) :
              tasks' = [tasks EXCEPT ![i].post.timestamp = ts, ![i].stage = "scheduled"]
    /\ sched_log' = Append(sched_log,
           [week |-> tasks[i].week, batch |-> {i},
            pending |-> config.posts_per_week
                        - Cardinality({j \in WeekTasks(tasks[i].week) : tasks[j].stage = "done"})])
    /\ UNCHANGED <<config, week_idx, week_keywords, all_posts_data, all_comments_data,
                   post_rows, comment_rows, mpc>>
    /\ UNCHANGED <<schedVars, clockVars, retryVars, threadVars>>

\* the comments of task i with their timestamps, offsets[j] the j-th randint
CommentsOf(i, offsets) ==
    LET base_ts == fromisoformat(_clean_timestamp(tasks[i].post.timestamp))
    IN  [j \in 1..Len(offsets) |->
            [id |-> <<i, j>>,
             timestamp |-> SecondsFormat(PlusMinutes(base_ts, offsets[j]))]]

\* generate_single_post_chain, lines 94-102: up to num_comments comments, each
\* stamped at an offset from the post
TaskComments(i) ==
    /\ tasks[i].stage = "scheduled"
    /\ \E n \in 0..config.num_comments :
          \E offsets \in [1..n -> CampaignDraws.offsets] :
              tasks' = [tasks EXCEPT ![i].comments = CommentsOf(i, offsets),
                                     ![i].stage = "done"]
    /\ UNCHANGED <<config, week_idx, week_keywords, all_posts_data, all_comments_data,
                   post_rows, comment_rows, mpc, sched_log>>
    /\ UNCHANGED <<schedVars, clockVars, retryVars, threadVars>>

\* main, lines 212-220: as_completed yields a finished task
Collect(i) ==
    /\ mpc = "week"
    /\ Cardinality(WeekTasks(week_idx)) = config.posts_per_week
    /\ tasks[i].week = week_idx
    /\ tasks[i].stage = "done"
    /\ ~tasks[i].collected
    /\ tasks' = [tasks EXCEPT ![i].collected = TRUE]
    /\ all_posts_data' = Append(all_posts_data,
           [post |-> tasks[i].post, week_number |-> week_idx + 1, task |-> i])
    /\ all_comments_data' = all_comments_data \o
           [j \in 1..Len(tasks[i].comments) |->
               [comment |-> tasks[i].comments[j], week_number |-> week_idx + 1,
                post_keyword |-> tasks[i].post.keyword_id]]
    /\ UNCHANGED <<config, week_idx, week_keywords, post_rows, comment_rows, mpc,
                   sched_log>>
    /\ UNCHANGED <<schedVars, clockVars, retryVars, threadVars>>

WeekCollected ==
    /\ Cardinality(WeekTasks(week_idx)) = config.posts_per_week
    /\ \A i \in WeekTasks(week_idx) : tasks[i].collected

\* main, lines 172-174: the next iteration of for week_idx in range(duration_weeks)
NextWeek ==
    /\ mpc = "week"
    /\ WeekCollected
    /\ week_idx + 1 < config.duration_weeks
    /\ week_idx' = week_idx + 1
    /\ week_keywords' = {}
    /\ UNCHANGED <<config, tasks, all_posts_data, all_comments_data, post_rows,
                   comment_rows, mpc, sched_log>>
    /\ UNCHANGED <<schedVars, clockVars, retryVars, threadVars>>

\* key of sorted(all_posts_data, ...), lines 225-228
ExportKey(entry) == fromisoformat(_clean_timestamp(entry.post.timestamp))

InsertEntry(s, entry) ==
    LET before == {i \in 1..Len(s) : NotLater(ExportKey(s[i]), ExportKey(entry))}
        k == IF before = {} THEN 0 ELSE CHOOSE i \in before : \A j \in before : j <= i
    IN  SubSeq(s, 1, k) \o <<entry>> \o SubSeq(s, k + 1, Len(s))

RECURSIVE SortEntries(_)
SortEntries(s) ==
    IF s = <<>> THEN <<>>
    ELSE InsertEntry(SortEntries(SubSeq(s, 1, Len(s) - 1)), s[Len(s)])

\* line 249: the comments whose post_keyword is the post's keyword_id
RECURSIVE RelatedComments(_, _)
RelatedComments(cs, keyword_id) ==
    IF cs = <<>> THEN <<>>
    ELSE (IF Head(cs).post_keyword = keyword_id THEN <<Head(cs)>> ELSE <<>>)
         \o RelatedComments(Tail(cs), keyword_id)

\* lines 250-262: the comment rows under the post at position idx
CommentRowsOf(posts_sorted, idx) ==
    LET related_comments ==
            RelatedComments(all_comments_data, posts_sorted[idx].post.keyword_id)
    IN  [c_idx \in 1..Len(related_comments) |->
            [Week_Number |-> related_comments[c_idx].week_number,
             comment_id |-> <<idx, c_idx>>,
             post_id |-> idx,
             comment |-> related_comments[c_idx].comment.id,
             timestamp |-> _clean_timestamp(related_comments[c_idx].comment.timestamp)]]

RECURSIVE CommentRowsFrom(_, _)
CommentRowsFrom(posts_sorted, idx) ==
    IF idx > Len(posts_sorted) THEN <<>>
    ELSE CommentRowsOf(posts_sorted, idx) \o CommentRowsFrom(posts_sorted, idx + 1)

\* main, lines 222-262: sort the posts and build the rows
Export ==
    /\ mpc = "week"
    /\ WeekCollected
    /\ ~(week_idx + 1 < config.duration_weeks)
    /\ LET posts_sorted == SortEntries(all_posts_data)
       IN  /\ post_rows' =
                 [idx \in 1..Len(posts_sorted) |->
                     [Week_Number |-> posts_sorted[idx].week_number,
                      post_id |-> idx,
                      post |-> posts_sorted[idx].task,
                      timestamp |-> _clean_timestamp(posts_sorted[idx].post.timestamp),
                      keyword_ids |-> posts_sorted[idx].post.keyword_id]]
           /\ comment_rows' = CommentRowsFrom(posts_sorted, 1)
    /\ mpc' = "exported"
    /\ UNCHANGED <<config, week_idx, week_keywords, tasks, all_posts_data,
                   all_comments_data, sched_log>>
    /\ UNCHANGED <<schedVars, clockVars, retryVars, threadVars>>

NextCampaign ==
    \/ Submit
    \/ \E i \in TaskIdx : TaskSchedule(i)
    \/ \E i \in TaskIdx : TaskComments(i)
    \/ \E i \in TaskIdx : Collect(i)
    \/ NextWeek
    \/ Export

SpecCampaign == InitCampaign /\ [][NextCampaign]_vars

-----------------------------------------------------------------------------
(* schedule_week_posts called from several threads, each with its own      *)
(* batch.  calls[t] holds what the invocation of thread t owns: its post    *)
(* objects, its WeekScheduler and the local variables of schedule_posts.    *)
(* A step is one iteration of the loop of one thread.                       *)

Threads == {"T1", "T2"}

\* batches of the sample: shared and different topics and forums
ThreadBatches ==
    {<<Post("k1", "r/A")>>,
     <<Post("k1", "r/A"), Post("k2", "r/A")>>,
     <<Post("k1", "r/B"), Post("k1", "r/A")>>}

\* state of an invocation that has not started
Invocation(batch) ==
    [posts |-> batch,
     start_date |-> DateTime(0, 9, 0, 0),
     schedule |-> [day \in Days |-> <<>>],
     posts_to_schedule |-> <<>>,
     pos |-> 0,
     used_keywords |-> {},
     daily_subreddits |-> [day \in Days |-> {}],
     scheduled_posts |-> <<>>,
     pc |-> "new",
     day_of |-> [i \in 1..Len(batch) |-> NoDay],
     how |-> [i \in 1..Len(batch) |-> "pending"],
     validation |-> NotValidated]

\* every shuffle of the batch, the midday slot, minute 0
ShuffleDraws == [shuffles |-> "all", slots |-> {2}, minutes |-> {0}]

InitThreads ==
    /\ \/ /\ \E b \in [Threads -> ThreadBatches] :
                calls = [t \in Threads |-> Invocation(b[t])]
          /\ draws = ShuffleDraws
       \/ /\ calls = [t \in Threads |->
                        Invocation(IF t = "T1" THEN OneForumBatch ELSE <<Post("k1", "r/A")>>)]
          /\ draws = NarrowDraws
    /\ start_date = DateTime(0, 9, 0, 0)
    /\ posts = <<>>
    /\ schedule = [day \in Days |-> <<>>]
    /\ pc = "new"
    /\ SchedulerFresh
    /\ ClockIdle /\ RetryIdle /\ CampaignIdle

\* variant: one used-topic set at module level, shared by the invocations
UsedKeywordsShared(t) == UNION {calls[u].used_keywords : u \in Threads}

\* used_keywords is a local variable of the call, line 64
UsedKeywordsOf(t) == calls[t].used_keywords

\* daily_subreddits is a local variable of the call, line 67
DaysTakenOf(t, subreddit) == {d \in Days : subreddit \in calls[t].daily_subreddits[d]}

MinConflictsDayOf(t) ==
    CHOOSE d \in Days :
        \A e \in Days :
            \/ Cardinality(calls[t].daily_subreddits[d])
                 < Cardinality(calls[t].daily_subreddits[e])
            \/ /\ Cardinality(calls[t].daily_subreddits[d])
                    = Cardinality(calls[t].daily_subreddits[e])
               /\ d <= e

CurrentOf(t) == calls[t].posts_to_schedule[calls[t].pos]

InLoopOf(t) == calls[t].pc = "loop" /\ calls[t].pos <= Len(calls[t].posts_to_schedule)

\* lines 201-202 and 63-73: construct the scheduler, copy and shuffle
ThreadShuffle(t) ==
    /\ calls[t].pc = "new"
    /\ \E order \in PostOrders(Len(calls[t].posts)) :
          calls' = [calls EXCEPT ![t].posts_to_schedule = order,
                                 ![t].pos = 1,
                                 ![t].pc = "loop"]
    /\ UNCHANGED <<schedVars, clockVars, retryVars, campaignVars>>

\* lines 76-78
ThreadSkipKeyword(t) ==
    /\ InLoopOf(t)
    /\ calls[t].posts[CurrentOf(t)].keyword_id \in UsedKeywordsOf(t)
    /\ calls' = [calls EXCEPT ![t].how[CurrentOf(t)] = "dropped",
                              ![t].pos = @ + 1]
    /\ UNCHANGED <<schedVars, clockVars, retryVars, campaignVars>>

\* lines 88-101 and 110-120 for the invocation of thread t
ThreadAssign(t, day, mins, choice, path) ==
    LET p == CurrentOf(t)
        post == calls[t].posts[p]
    IN  calls' = [calls EXCEPT
            ![t].posts[p].timestamp =
                isoformat(PostingTimesFrom(calls[t].start_date, day, mins)[choice]),
            ![t].daily_subreddits[day] = @ \cup {post.subreddit},
            ![t].used_keywords = @ \cup {post.keyword_id},
            ![t].scheduled_posts = Append(@, p),
            ![t].day_of[p] = day,
            ![t].how[p] = path,
            ![t].pos = @ + 1]

\* lines 80-103
ThreadPlaceOnFreeDay(t) ==
    /\ InLoopOf(t)
    /\ calls[t].posts[CurrentOf(t)].keyword_id \notin UsedKeywordsOf(t)
    /\ \E day \in LoopOutcomes(DaysTakenOf(t, calls[t].posts[CurrentOf(t)].subreddit)) :
          /\ day # NoDay
          /\ \E mins \in [1..3 -> draws.minutes], choice \in draws.slots :
                 ThreadAssign(t, day, mins, choice, "day_rule")
    /\ UNCHANGED <<schedVars, clockVars, retryVars, campaignVars>>

\* lines 105-120
ThreadPlaceFallback(t) ==
    /\ InLoopOf(t)
    /\ calls[t].posts[CurrentOf(t)].keyword_id \notin UsedKeywordsOf(t)
    /\ NoDay \in LoopOutcomes(DaysTakenOf(t, calls[t].posts[CurrentOf(t)].subreddit))
    /\ \E mins \in [1..3 -> draws.minutes], choice \in draws.slots :
           ThreadAssign(t, MinConflictsDayOf(t), mins, choice, "fallback")
    /\ UNCHANGED <<schedVars, clockVars, retryVars, campaignVars>>

InsertRef(heap, s, p) ==
    LET before == {i \in 1..Len(s) :
                      NotLater(fromisoformat(heap[s[i]].timestamp),
                               fromisoformat(heap[p].timestamp))}
        k == IF before = {} THEN 0 ELSE CHOOSE i \in before : \A j \in before : j <= i
    IN  SubSeq(s, 1, k) \o <<p>> \o SubSeq(s, k + 1, Len(s))

RECURSIVE SortRefs(_, _)
SortRefs(heap, s) ==
    IF s = <<>> THEN <<>>
    ELSE InsertRef(heap, SortRefs(heap, SubSeq(s, 1, Len(s) - 1)), s[Len(s)])

\* lines 122-126 and 204-217: sort, validate the scheduler, return
ThreadReturn(t) ==
    /\ calls[t].pc = "loop"
    /\ calls[t].pos > Len(calls[t].posts_to_schedule)
    /\ calls' = [calls EXCEPT
           ![t].scheduled_posts = SortRefs(calls[t].posts, @),
           ![t].validation = validate_schedule(calls[t].schedule),
           ![t].pc = "returned"]
    /\ UNCHANGED <<schedVars, clockVars, retryVars, campaignVars>>

NextThreads ==
    \/ \E t \in Threads : ThreadShuffle(t)
    \/ \E t \in Threads : ThreadSkipKeyword(t)
    \/ \E t \in Threads : ThreadPlaceOnFreeDay(t)
    \/ \E t \in Threads : ThreadPlaceFallback(t)
    \/ \E t \in Threads : ThreadReturn(t)

SpecThreads == InitThreads /\ [][NextThreads]_vars

-----------------------------------------------------------------------------
(* Vocabulary of the properties *)

\* schedule_posts has returned; scheduled_posts is the returned sequence
Returned == pc \in {"returned", "validated"}

OutIdx == 1..Len(scheduled_posts)

InputIdx == 1..Len(posts)

Stamped(p) == posts[p].timestamp # None

\* the datetime a post's timestamp string denotes
TimeOf(p) == fromisoformat(posts[p].timestamp)

CalendarDay(p) == TimeOf(p).date

\* position of a post in the processing order
PosOf(p) == CHOOSE i \in 1..Len(posts_to_schedule) : posts_to_schedule[i] = p

\* a post with the same topic is processed before p
TopicSeenBefore(p) ==
    \E q \in InputIdx :
        /\ PosOf(q) < PosOf(p)
        /\ posts[q].keyword_id = posts[p].keyword_id

\* topics and forums of the batch are pairwise distinct
AllDistinct ==
    \A p, q \in InputIdx :
        p # q => /\ posts[p].keyword_id # posts[q].keyword_id
                 /\ posts[p].subreddit # posts[q].subreddit

-----------------------------------------------------------------------------
\* C1: the sequence returned by schedule_posts holds no two posts with the
\* same keyword_id.
NoDuplicateTopics ==
    Returned =>
        \A i, j \in OutIdx :
            i # j => posts[scheduled_posts[i]].keyword_id
                       # posts[scheduled_posts[j]].keyword_id

\* a batch with a repeated topic has been scheduled and returned
RepeatedTopicReturned ==
    /\ Returned
    /\ Len(scheduled_posts) = 1
    /\ \E p, q \in InputIdx : p # q /\ posts[p].keyword_id = posts[q].keyword_id

\* C2: two returned posts share calendar day and subreddit only if the
\* fallback path was taken for a post of that subreddit.
DayRuleUnlessFallback ==
    Returned =>
        \A i, j \in OutIdx :
            LET p == scheduled_posts[i]
                q == scheduled_posts[j]
            IN  (/\ i # j
                 /\ posts[p].subreddit = posts[q].subreddit
                 /\ CalendarDay(p) = CalendarDay(q))
                => \E f \in InputIdx : /\ how[f] = "fallback"
                                       /\ posts[f].subreddit = posts[p].subreddit

\* two posts of one subreddit returned on different days, no fallback taken
SameForumApart ==
    /\ Returned
    /\ \A f \in InputIdx : how[f] # "fallback"
    /\ \E i, j \in OutIdx :
          /\ i # j
          /\ posts[scheduled_posts[i]].subreddit = posts[scheduled_posts[j]].subreddit
          /\ CalendarDay(scheduled_posts[i]) # CalendarDay(scheduled_posts[j])

\* C3 as stated: every assigned timestamp t satisfies
\* start_date <= t < start_date + 7 days, whatever start_date's time of day.
WithinWeekOfStartDate ==
    \A p \in InputIdx :
        Stamped(p) =>
            /\ ToSeconds(start_date) <= ToSeconds(TimeOf(p))
            /\ ToSeconds(TimeOf(p)) < ToSeconds(PlusDays(start_date, NumDays))

\* C3 amended: every assigned timestamp t satisfies
\* midnight of start_date's day <= t < start_date + 7 days.
WithinWeekOfStartDay ==
    \A p \in InputIdx :
        Stamped(p) =>
            /\ ToSeconds(DateTime(start_date.date, 0, 0, 0)) <= ToSeconds(TimeOf(p))
            /\ ToSeconds(TimeOf(p)) < ToSeconds(PlusDays(start_date, NumDays))

\* a post placed on day 0 in a slot earlier than start_date's time of day
PlacedBeforeAnchor ==
    \E p \in InputIdx :
        /\ Stamped(p)
        /\ day_of[p] = 0
        /\ ToSeconds(TimeOf(p)) < ToSeconds(start_date)

\* C4: every returned post has a non-empty timestamp string and the returned
\* sequence is non-decreasing by the datetimes the strings denote.
SortedWithTimestamps ==
    Returned =>
        /\ \A i \in OutIdx : Len(posts[scheduled_posts[i]].timestamp) > 0
        /\ \A i, j \in OutIdx :
              i < j => ToSeconds(TimeOf(scheduled_posts[i]))
                         <= ToSeconds(TimeOf(scheduled_posts[j]))

\* the sort moved a post processed later in front of one processed earlier
SortReordered ==
    /\ Returned
    /\ \E i, j \in OutIdx :
          /\ i < j
          /\ PosOf(scheduled_posts[i]) > PosOf(scheduled_posts[j])
          /\ ToSeconds(TimeOf(scheduled_posts[i])) < ToSeconds(TimeOf(scheduled_posts[j]))

\* C5 as stated: every post of the input batch is present exactly once in
\* the output.
EveryInputOnce ==
    Returned => \A p \in InputIdx : Count(scheduled_posts, p) = 1

\* C5 amended: every input post is present at most once in the output, and
\* exactly once unless a post with the same keyword_id was processed earlier
\* in the call.
EveryFirstTopicOnce ==
    Returned =>
        \A p \in InputIdx :
            /\ Count(scheduled_posts, p) <= 1
            /\ Count(scheduled_posts, p) = 1 <=> ~TopicSeenBefore(p)

\* a post was dropped by the topic rule while the earlier post is returned
LaterTopicDropped ==
    /\ Returned
    /\ \E p, q \in InputIdx :
          /\ PosOf(q) < PosOf(p)
          /\ posts[q].keyword_id = posts[p].keyword_id
          /\ how[p] = "dropped"
          /\ Count(scheduled_posts, p) = 0
          /\ Count(scheduled_posts, q) = 1

\* C6: the output size is the input size minus the posts whose topic was
\* processed earlier in the call, i.e. the number of distinct keyword_ids.
OutputSizeIsDistinctTopics ==
    Returned =>
        /\ Len(scheduled_posts)
             = Len(posts) - Cardinality({p \in InputIdx : TopicSeenBefore(p)})
        /\ Len(scheduled_posts)
             = Cardinality({posts[p].keyword_id : p \in InputIdx})

\* distinct topics on one forum beyond the week's days, returned in full
FullLengthDespiteFallback ==
    /\ Returned
    /\ \E f \in InputIdx : how[f] = "fallback"
    /\ Len(scheduled_posts) = Len(posts)
    /\ Len(posts) > NumDays

\* C7: a post processed while its subreddit is in the used-forum sets of
\* fewer than 7 days is never placed by the fallback branch: if its topic is
\* new it is placed on a day whose set did not contain the subreddit.
DayRuleAbsentExhaustion ==
    [][ (InLoop /\ DaysTaken(posts[Current].subreddit) # Days)
        => /\ how'[Current] # "fallback"
           /\ posts[Current].keyword_id \notin used_keywords
                => /\ how'[Current] = "day_rule"
                   /\ posts[Current].subreddit \notin daily_subreddits[day_of'[Current]]
                   /\ posts[Current].subreddit \in daily_subreddits'[day_of'[Current]]
                   /\ fromisoformat(posts'[Current].timestamp).date
                        = start_date.date + day_of'[Current] ]_vars

\* a seventh post of one subreddit placed on the last free day
SeventhOnLastFreeDay ==
    \E p \in InputIdx :
        /\ how[p] = "day_rule"
        /\ Cardinality({day_of[q] : q \in {r \in InputIdx :
                           /\ how[r] = "day_rule"
                           /\ posts[r].subreddit = posts[p].subreddit}}) = NumDays

\* the step of C8: a post whose subreddit is used on all 7 days is appended
\* to the output on the least-used day, lowest index first, topic marked
FallbackStep ==
    (InLoop /\ posts[Current].keyword_id \notin used_keywords
            /\ DaysTaken(posts[Current].subreddit) = Days)
    => /\ how'[Current] = "fallback"
       /\ scheduled_posts' = Append(scheduled_posts, Current)
       /\ posts[Current].keyword_id \in used_keywords'
       /\ \A e \in Days :
             \/ Cardinality(daily_subreddits[day_of'[Current]])
                  < Cardinality(daily_subreddits[e])
             \/ /\ Cardinality(daily_subreddits[day_of'[Current]])
                     = Cardinality(daily_subreddits[e])
                /\ day_of'[Current] <= e
       /\ fromisoformat(posts'[Current].timestamp).date
            = start_date.date + day_of'[Current]

\* the scenario of C8: of 8 posts to one subreddit with distinct topics the
\* first 7 processed land on 7 distinct days, the 8th on day 0, none dropped
EightOnOneForum ==
    (Returned /\ posts = OneForumBatch)
    => /\ Len(scheduled_posts) = Len(posts)
       /\ \A p, q \in InputIdx :
             (p # q /\ PosOf(p) <= NumDays /\ PosOf(q) <= NumDays)
             => CalendarDay(p) # CalendarDay(q)
       /\ \A p \in InputIdx :
             PosOf(p) > NumDays
             => how[p] = "fallback" /\ CalendarDay(p) = start_date.date

DistinctTimestamps ==
    (Returned /\ AllDistinct) =>
        \A i, j \in OutIdx :
            i # j => posts[scheduled_posts[i]].timestamp
                       # posts[scheduled_posts[j]].timestamp

\* C9 amended: for such a batch two returned posts placed on different days
\* or in different peak slots have distinct timestamps.
DistinctAcrossDaysAndSlots ==
    (Returned /\ AllDistinct) =>
        \A i, j \in OutIdx :
            LET p == scheduled_posts[i]
                q == scheduled_posts[j]
            IN  (i # j /\ (day_of[p] # day_of[q] \/ slot_of[p] # slot_of[q]))
                => posts[p].timestamp # posts[q].timestamp

\* two posts of such a batch returned with one and the same timestamp
SameSlotSameMinute ==
    /\ Returned
    /\ AllDistinct
    /\ \E i, j \in OutIdx :
          /\ i # j
          /\ day_of[scheduled_posts[i]] = day_of[scheduled_posts[j]]
          /\ slot_of[scheduled_posts[i]] = slot_of[scheduled_posts[j]]
          /\ posts[scheduled_posts[i]].timestamp = posts[scheduled_posts[j]].timestamp

\* C10: when the returned posts hold two posts with the same subreddit on
\* the same day, validate_schedule on that scheduler returns is_valid = False
\* with a violation for that day and no collision-free report is made.
ValidationDetectsCollisions ==
    pc = "validated" =>
        \A i, j \in OutIdx :
            LET p == scheduled_posts[i]
                q == scheduled_posts[j]
            IN  (/\ i # j
                 /\ posts[p].subreddit = posts[q].subreddit
                 /\ CalendarDay(p) = CalendarDay(q))
                => /\ ~validation.is_valid
                   /\ \E v \in 1..Len(validation.violations) :
                         /\ validation.violations[v].kind = "subreddit"
                         /\ validation.violations[v].day = day_of[p]
                   /\ report # "no_collisions"

-----------------------------------------------------------------------------
(* Vocabulary of the validation properties *)

\* the entries of the whole week, day by day
RECURSIVE WeekEntries(_)
WeekEntries(day) ==
    IF day \notin Days THEN <<>> ELSE schedule[day] \o WeekEntries(day + 1)

\* subreddits that occur more than once on a day
RepeatedOn(day) ==
    {sr \in Subreddits :
        Cardinality({i \in 1..Len(schedule[day]) : schedule[day][i].subreddit = sr}) > 1}

\* keyword_ids that occur more than once in the week
RepeatedKeywords ==
    {k \in KeywordIds :
        Cardinality({i \in 1..Len(WeekEntries(0)) : WeekEntries(0)[i].keyword_id = k}) > 1}

ViolationSet == {validation.violations[i] : i \in 1..Len(validation.violations)}

\* C11: validate_schedule returns is_valid = True exactly when no day holds
\* two posts with the same subreddit and no keyword_id occurs twice in the
\* week; otherwise the violations name every day with a repeated subreddit
\* and every keyword_id that occurs more than once.
ValidationIsExact ==
    pc = "checked" =>
        /\ validation.is_valid
             <=> ((\A day \in Days : RepeatedOn(day) = {}) /\ RepeatedKeywords = {})
        /\ \A day \in Days :
              RepeatedOn(day) # {}
              => \E v \in ViolationSet :
                    v.kind = "subreddit" /\ v.day = day /\ v.what = RepeatedOn(day)
        /\ \A k \in RepeatedKeywords :
              \E v \in ViolationSet : v.kind = "keyword" /\ v.what = {k}
        /\ \A v \in ViolationSet :
              \/ v.kind = "subreddit" /\ v.day \in Days /\ RepeatedOn(v.day) # {}
              \/ v.kind = "keyword" /\ v.what \subseteq RepeatedKeywords

\* a schedule with a repeated subreddit on one day and a keyword_id repeated
\* on another day, validated
BothKindsReported ==
    /\ pc = "checked"
    /\ ~validation.is_valid
    /\ \E day \in Days : RepeatedOn(day) # {}
    /\ \E k \in RepeatedKeywords :
          \A day \in Days :
              Cardinality({i \in 1..Len(schedule[day]) : schedule[day][i].keyword_id = k}) <= 1

\* C12: without a start_date the anchor is a Monday at 09:00:00, lies strictly
\* after now, is 1 to 7 days after today's date, and is 7 days after today
\* when today is a Monday.
AnchorIsNextMonday ==
    pc = "new" =>
        /\ weekday(start_date) = 0
        /\ start_date.hour = 9 /\ start_date.minute = 0
        /\ start_date.second = 0 /\ start_date.microsecond = 0
        /\ Earlier(today, start_date)
        /\ start_date.date - today.date \in 1..7
        /\ weekday(today) = 0 => start_date.date - today.date = 7

\* constructed on a Monday before 09:00: the anchor is a week later
MondayMorningAnchor ==
    /\ pc = "new"
    /\ weekday(today) = 0
    /\ today.hour < 9
    /\ start_date.date = today.date + 7

-----------------------------------------------------------------------------
(* Vocabulary of the properties of the loop of schedule_posts *)

\* no post of this call has been placed by the fallback path so far
NoFallbackYet == \A p \in InputIdx : how[p] # "fallback"

\* posts placed so far
Placed == {p \in InputIdx : how[p] \in {"day_rule", "fallback"}}

\* C17 as stated: while schedule_posts processes a batch, no subreddit is in
\* the used-forum set of more than one day unless the fallback path has been
\* taken earlier in the call.
ForumOnOneDayOnly ==
    (pc = "loop" /\ NoFallbackYet)
    => \A sr \in Subreddits : Cardinality(DaysTaken(sr)) <= 1

\* C17 (amended): while schedule_posts processes a batch, unless the fallback
\* path has been taken earlier in the call, each day's used-forum set holds
\* exactly the subreddits of the posts placed on that day so far and no two
\* placed posts with the same subreddit are on the same day; a subreddit is
\* in as many days' sets as it has placed posts.
ForumOncePerDay ==
    (pc = "loop" /\ NoFallbackYet)
    => /\ \A day \in Days :
             daily_subreddits[day] = {posts[p].subreddit : p \in {q \in Placed : day_of[q] = day}}
       /\ \A p, q \in Placed :
             (p # q /\ posts[p].subreddit = posts[q].subreddit) => day_of[p] # day_of[q]
       /\ \A sr \in Subreddits :
             Cardinality(DaysTaken(sr))
               = Cardinality({p \in Placed : posts[p].subreddit = sr})

\* in the loop, without fallback, one subreddit is in the sets of two days
ForumOnTwoDays ==
    /\ pc = "loop"
    /\ NoFallbackYet
    /\ \E sr \in Subreddits : Cardinality(DaysTaken(sr)) >= 2

\* one step of schedule_posts leaves every post in its place with its
\* content, and changes a timestamp only by placing the post the loop is at
FrameStep ==
    /\ Len(posts') = Len(posts)
    /\ \A p \in InputIdx :
          /\ posts'[p].title = posts[p].title
          /\ posts'[p].body = posts[p].body
          /\ posts'[p].subreddit = posts[p].subreddit
          /\ posts'[p].author_id = posts[p].author_id
          /\ posts'[p].keyword_id = posts[p].keyword_id
          /\ posts'[p].timestamp # posts[p].timestamp
             => (InLoop /\ p = Current /\ how'[p] \in {"day_rule", "fallback"})
          /\ how'[p] = "dropped" => posts'[p].timestamp = posts[p].timestamp

\* the output holds references to input posts, each at most once
OutputsAreInputs ==
    /\ \A i \in OutIdx : scheduled_posts[i] \in InputIdx
    /\ \A i, j \in OutIdx : i # j => scheduled_posts[i] # scheduled_posts[j]

\* C18: schedule_posts changes nothing but the timestamp of the posts it
\* places: subreddit, keyword_id, author_id, title and body of every post are
\* unchanged, a post dropped by the topic rule keeps its prior timestamp, the
\* caller's list keeps its length and order, and every output element is one
\* of the input post objects.
OnlyTimestampsOfPlacedChange == [][FrameStep]_vars /\ []OutputsAreInputs

\* returned: a dropped post still carries its prior timestamp and a placed
\* post carries a new one
DroppedKeptPriorTimestamp ==
    /\ Returned
    /\ \E p, q \in InputIdx :
          /\ how[p] = "dropped"
          /\ posts[p].timestamp = PriorTimestamp
          /\ how[q] = "day_rule"
          /\ posts[q].timestamp \notin {None, PriorTimestamp}

-----------------------------------------------------------------------------
(* Vocabulary of the properties of generate_with_retry *)

Finished == outcome.kind \in {"returned", "raised"}

\* the calls made before the last one all raised ResourceExhausted
EarlierCallsExhausted == \A i \in 1..(api_calls - 1) : responses[i] = "ResourceExhausted"

AllAttemptsFail == \A i \in 1..max_retries : responses[i] = "ResourceExhausted"

\* C19: generate_with_retry calls the model at most max_retries times, returns
\* the response of the first successful call, retries only after
\* ResourceExhausted, raises ResourceExhausted when all attempts fail rather
\* than returning without a response, for every max_retries >= 0, and lets
\* any other exception through on its first occurrence.
RetryContract ==
    /\ api_calls <= max_retries
    /\ api_calls > 0 => EarlierCallsExhausted
    /\ Finished =>
          /\ outcome.kind = "returned"
             => /\ outcome.value = <<"response", api_calls>>
                /\ responses[api_calls] = "response"
          /\ outcome = [kind |-> "raised", value |-> <<"error">>]
             => responses[api_calls] = "error"
          /\ outcome = [kind |-> "raised", value |-> <<"ResourceExhausted">>]
             => AllAttemptsFail
          /\ AllAttemptsFail
             => outcome = [kind |-> "raised", value |-> <<"ResourceExhausted">>]

-----------------------------------------------------------------------------
(* Vocabulary of the properties of a campaign *)

LogIdx == 1..Len(sched_log)

Weeks == 0..(config.duration_weeks - 1)

\* C13: for each week the orchestrator invokes the scheduler exactly once,
\* with the batch of all of that week's posts, and only after every
\* generation task of the week has completed, never while one is pending.
SchedulerOncePerWeek ==
    /\ \A e \in LogIdx :
          /\ sched_log[e].pending = 0
          /\ sched_log[e].batch = WeekTasks(sched_log[e].week)
          /\ Cardinality(sched_log[e].batch) = config.posts_per_week
    /\ \A e, f \in LogIdx : sched_log[e].week = sched_log[f].week => e = f
    /\ mpc = "exported" => \A w \in Weeks : \E e \in LogIdx : sched_log[e].week = w

\* C14: among the posts the orchestrator produces for one week no two carry
\* the same keyword_id, also when posts_per_week exceeds the number of
\* keywords and the selection-stage set is reset.
WeekTopicsDistinct ==
    \A a, b \in 1..Len(all_posts_data) :
        (a # b /\ all_posts_data[a].week_number = all_posts_data[b].week_number)
        => all_posts_data[a].post.keyword_id # all_posts_data[b].post.keyword_id

\* C15: every comment's timestamp is assigned after its parent post has been
\* scheduled and is later than the parent post's timestamp by at least 15
\* and at most 120 minutes.
CommentsAfterPost ==
    \A i \in TaskIdx :
        \A j \in 1..Len(tasks[i].comments) :
            /\ tasks[i].post.timestamp # None
            /\ NotLater(PlusMinutes(fromisoformat(tasks[i].post.timestamp), MinOffset),
                        fromisoformat(tasks[i].comments[j].timestamp))
            /\ NotLater(fromisoformat(tasks[i].comments[j].timestamp),
                        PlusMinutes(fromisoformat(tasks[i].post.timestamp), MaxOffset))

\* C20: in the exported rows every generated comment appears in exactly one
\* comment row, and that row's post_id is the id of the post the comment was
\* generated for, also when two posts carry the same keyword_id.
CommentRowsMatchPosts ==
    mpc = "exported" =>
        \A i \in TaskIdx :
            \A j \in 1..Len(tasks[i].comments) :
                LET rows == {r \in 1..Len(comment_rows) : comment_rows[r].comment = <<i, j>>}
                IN  /\ Cardinality(rows) = 1
                    /\ \A r \in rows : post_rows[comment_rows[r].post_id].post = i

-----------------------------------------------------------------------------
(* Vocabulary of the properties of concurrent invocations *)

PlacedBy(t) ==
    {p \in 1..Len(calls[t].posts) : calls[t].how[p] \in {"day_rule", "fallback"}}

OutputOf(t) == {calls[t].scheduled_posts[i] : i \in 1..Len(calls[t].scheduled_posts)}

\* the working sets of an invocation hold what its own placements put there
OwnSetsOnly(t) ==
    /\ calls[t].used_keywords = {calls[t].posts[p].keyword_id : p \in PlacedBy(t)}
    /\ \A day \in Days :
          calls[t].daily_subreddits[day]
            = {calls[t].posts[p].subreddit : p \in {q \in PlacedBy(t) : calls[t].day_of[q] = day}}

\* the guarantees of schedule_posts for the batch of thread t alone
AloneGuarantees(t) ==
    calls[t].pc = "returned" =>
        /\ OutputOf(t) = PlacedBy(t)
        /\ \A p, q \in OutputOf(t) :
              p # q => calls[t].posts[p].keyword_id # calls[t].posts[q].keyword_id
        /\ Cardinality(OutputOf(t))
             = Cardinality({calls[t].posts[p].keyword_id : p \in 1..Len(calls[t].posts)})
        /\ \A p, q \in OutputOf(t) :
              (/\ p # q
               /\ calls[t].posts[p].subreddit = calls[t].posts[q].subreddit
               /\ calls[t].day_of[p] = calls[t].day_of[q])
              => \E f \in PlacedBy(t) :
                    /\ calls[t].how[f] = "fallback"
                    /\ calls[t].posts[f].subreddit = calls[t].posts[p].subreddit

\* a step changes the state of one invocation only
OneInvocationStep == \E t \in Threads : \A u \in Threads \ {t} : calls'[u] = calls[u]

\* C16: concurrent invocations of schedule_week_posts, each with its own
\* batch, do not interfere under any interleaving: the used-topic and
\* used-forum sets of an invocation are not read or written by another, and
\* the output of each invocation has no duplicate topic and keeps the day
\* rule as if it ran alone.
InvocationsIndependent ==
    /\ [][OneInvocationStep]_vars
    /\ [](\A t \in Threads : OwnSetsOnly(t) /\ AloneGuarantees(t))

\* both invocations are inside their loops and each has placed a post with
\* the same topic on the same forum on the same day
SameTopicAndDayInBoth ==
    /\ \A t \in Threads : calls[t].pc = "loop" /\ calls[t].pos > 1
    /\ \E k \in KeywordIds : \A t \in Threads : k \in calls[t].used_keywords
    /\ \E day \in Days, sr \in Subreddits :
          \A t \in Threads : sr \in calls[t].daily_subreddits[day]

====
